---- MODULE Spec2Model ----
(***************************************************************************)
(* The GAIA benchmark runners (submit_gemini_gaia.py with agent_gemini's   *)
(* Agent, submit_gaia_benchmark.py with gaia_agent's GAIAAgent), the task  *)
(* context store and the rate-limited search of tools.py.                  *)
(*                                                                         *)
(* Python values are records [t |-> type tag, v |-> text]: a str carries   *)
(* its characters, an int its decimal digits, None and an absent dict key  *)
(* carry nothing.  Text is a sequence of one-character strings, so that    *)
(* prefixes, concatenation and str() are computed and not assumed.         *)
(*                                                                         *)
(* The fetched question list is revealed record by record as the loop      *)
(* reaches it: nTasks is its length, questions the records consumed so     *)
(* far.  The "duration" field of a RunResult is left out.                  *)
(***************************************************************************)
EXTENDS Integers, Sequences, FiniteSets, TLC

VARIABLES
    variant,               \* "gemini": Agent + submit_gemini_gaia, "gaia": GAIAAgent + submit_gaia_benchmark
    nTasks,                \* len(questions)
    questions,             \* the records of the list the loop has taken so far
    pc,                    \* "loop", "running", "returned", "raised"; in main also "analyzed", "confirmed", "done", "crashed"
    steps,                 \* reasoning steps of the agent.run in progress (0 when none is)
    results,               \* results of run_agent_on_all_questions
    answers_payload,       \* answers_payload of run_agent_on_all_questions
    current_task_context,  \* the module global of the variant's tool module
    solved,                \* the tasks passed to solve_task, in call order
    solve_out,             \* how the last solve_task ended and what it returned
    clock,                 \* time.time(), in seconds
    last_search_time,      \* last_search_time[0] of the rate limiter's closure
    search_log,            \* the invocations of rate_limited_search, in order
    tool_out,              \* the last invocation of a tool other than the search
    posts,                 \* the POST requests sent to /submit
    typed,                 \* what the operator typed at the confirmation prompt
    confirm,               \* main's variable confirm
    submit_ret,            \* what submit_results returned
    fetch_out,             \* how fetch_all_gaia_questions ended ("none" before it ran)
    agent,                 \* the agent run_agent_on_all_questions constructed
    model_out              \* the last call of the OllamaModel adapter

vars == <<variant, nTasks, questions, pc, steps, results, answers_payload,
          current_task_context, solved, solve_out, clock, last_search_time,
          search_log, tool_out, posts, typed, confirm, submit_ret,
          fetch_out, agent, model_out>>

runnerVars == <<variant, nTasks, questions, pc, steps, results,
                answers_payload, current_task_context, solved, solve_out>>

limiterVars == <<clock, last_search_time, search_log>>

toolVars == <<tool_out>>

mainVars == <<posts, typed, confirm, submit_ret>>

startVars == <<fetch_out, agent>>

modelVars == <<model_out>>

-----------------------------------------------------------------------------
(* Bounds *)

MaxTasks == 2
MaxTime == 9
MaxSearches == 2
MaxDur == 1

-----------------------------------------------------------------------------
(* Python values *)

PyStr(s) == [t |-> "str", v |-> s]
PyInt(d) == [t |-> "int", v |-> d]
PyNone == [t |-> "none", v |-> <<>>]
Missing == [t |-> "missing", v |-> <<>>]

EmptyStr == PyStr(<<>>)

\* bool(x)
Truthy(x) ==
    /\ x.t \in {"str", "int"}
    /\ ~(x.t = "str" /\ x.v = <<>>)
    /\ ~(x.t = "int" /\ x.v = <<"0">>)

\* str(x), as text
Str(x) == IF x.t = "none" THEN <<"N", "o", "n", "e">> ELSE x.v

\* d.get(k, default) on a dict given as a record whose absent keys hold Missing
Get(d, k, default) == IF d[k] = Missing THEN default ELSE d[k]

\* s.startswith(p)
StartsWith(s, p) == Len(s) >= Len(p) /\ SubSeq(s, 1, Len(p)) = p

EmptyDict == [task_id |-> Missing, Question |-> Missing, file_name |-> Missing]

-----------------------------------------------------------------------------
(* Inputs *)

Digits == <<"1", "2", "3", "4", "5", "6", "7", "8", "9">>

\* The JSON objects that GET /questions may hold at position k of its array:
\* every combination of an absent, empty or proper task_id with an absent,
\* empty, proper or non-string question; the file_name (absent, a name, or a
\* non-string) varies on the records that have a task_id and a string
\* question.
FetchedRecords(k) ==
    {r \in [task_id   : {Missing, EmptyStr, PyStr(<<"t", Digits[k]>>)},
            question  : {Missing, EmptyStr, PyStr(<<"q", "?">>), PyInt(<<"4", "2">>)},
            file_name : {Missing, PyStr(<<"f", ".", "p", "n", "g">>), PyInt(<<"5">>)}] :
        \/ r.file_name = Missing
        \/ (r.task_id.t = "str" /\ r.task_id.v # <<>> /\ r.question.t = "str")}

\* What agent.run can return: the argument of final_answer, which the model
\* chooses freely (a word followed by a blank, a number, a text that itself
\* starts with "Error:").
TerminalValues ==
    {PyStr(<<"P", "a", "r", "i", "s", " ">>), PyInt(<<"4", "2">>),
     PyStr(<<"E", "r", "r", "o", "r", ":", " ", "x">>)}

\* str(e) of the exceptions agent.run or the search tool can raise.
ExcMsgs == {<<"b", "o", "o", "m">>}

\* str(e) of the AttributeError of file_name.strip() on an int
StripErrorMsg ==
    <<"'", "i", "n", "t", "'", " ", "o", "b", "j", "e", "c", "t", " ", "h",
      "a", "s", " ", "n", "o", " ", "a", "t", "t", "r", "i", "b", "u", "t",
      "e", " ", "'", "s", "t", "r", "i", "p", "'">>

-----------------------------------------------------------------------------
(* run_agent_on_all_questions: the head of the loop body *)

task_id_of(question_data) == Get(question_data, "task_id", PyNone)
question_text_of(question_data) == Get(question_data, "question", PyNone)
file_name_of(question_data) == Get(question_data, "file_name", EmptyStr)

\* if not task_id or question_text is None: continue
SkipCondition(question_data) ==
    \/ ~Truthy(task_id_of(question_data))
    \/ question_text_of(question_data) = PyNone

\* question_text[:100] and len(question_text) in the banner print raise
\* TypeError on a value that is neither sliceable nor sized (an int, None).
BannerRaises(question_data) == question_text_of(question_data).t # "str"

\* task = {"task_id": ..., "Question": ..., "file_name": ...}
MakeTask(question_data) ==
    [task_id   |-> task_id_of(question_data),
     Question  |-> question_text_of(question_data),
     file_name |-> file_name_of(question_data)]

-----------------------------------------------------------------------------
(* The task context store *)

\* A store that updates in place and lets an empty new value keep the old one.
set_task_context_Merges(old_context, task_context) ==
    [f \in DOMAIN task_context |->
        IF ~Truthy(task_context[f]) /\ old_context[f] # Missing
        THEN old_context[f]
        ELSE task_context[f]]

\* tools.set_task_context: current_task_context = task_context
set_task_context(old_context, task_context) == task_context

\* Agent.solve_task: the context it builds from the task
AgentTaskContext(task) ==
    [task_id   |-> Get(task, "task_id", EmptyStr),
     Question  |-> Get(task, "Question", EmptyStr),
     file_name |-> Get(task, "file_name", EmptyStr)]

\* A solve_task that starts agent.run before it publishes the task.
PublishContext_Stale(v, old_context, task) == old_context

\* The store after solve_task has published the task.
PublishContext(v, old_context, task) ==
    IF v = "gemini"
    THEN set_task_context(old_context, AgentTaskContext(task))
    ELSE task

-----------------------------------------------------------------------------
(* solve_task *)

\* Agent.solve_task: `if file_name and file_name.strip()` before the try
StripRaises(v, task) ==
    /\ v = "gemini"
    /\ Truthy(Get(task, "file_name", EmptyStr))
    /\ Get(task, "file_name", EmptyStr).t # "str"

\* A solve_task that labels the answer it returns.
SolveTaskAnswer_Labelled(result) == PyStr(<<"A", ":", " ">> \o Str(result))

\* A solve_task that resets the store when it is done.
ContextAfterSolve_Clears(ctx) == EmptyDict

\* The store when solve_task returns: neither return path writes the global.
ContextAfterSolve(ctx) == ctx

\* return str(result)
SolveTaskAnswer(result) == PyStr(Str(result))

\* except Exception as e: the string solve_task returns
SolveTaskError(v, e) ==
    IF v = "gemini"
    THEN PyStr(<<"E", "r", "r", "o", "r", ":", " ">> \o e)
    ELSE PyStr(<<"E", "r", "r", "o", "r", " ", "s", "o", "l", "v", "i", "n",
                 "g", " ", "t", "a", "s", "k", ":", " ">> \o e)

-----------------------------------------------------------------------------
(* run_agent_on_all_questions: the two branches after solve_task *)

SuccessAnswer(task, result) ==
    [task_id |-> task.task_id, submitted_answer |-> PyStr(Str(result))]

SuccessResult(task, result) ==
    [task_id |-> task.task_id, question |-> task.Question, result |-> result,
     success |-> TRUE, error |-> PyNone]

ErrorAnswer(task, error_msg) ==
    [task_id |-> task.task_id,
     submitted_answer |-> PyStr(<<"E", "R", "R", "O", "R", ":", " ">> \o error_msg)]

ErrorResult(task, error_msg) ==
    [task_id |-> task.task_id, question |-> task.Question, result |-> PyNone,
     success |-> FALSE, error |-> PyStr(error_msg)]

\* A try branch that forgets the results log.
AppendSuccess_DropsResult(payload, log, task, result) ==
    <<Append(payload, SuccessAnswer(task, result)), log>>

\* the try branch: both appends, the payload first
AppendSuccess(payload, log, task, result) ==
    <<Append(payload, SuccessAnswer(task, result)),
      Append(log, SuccessResult(task, result))>>

\* An except branch that leaves the failed task out of the payload.
AppendError_DropsAnswer(payload, log, task, error_msg) ==
    <<payload, Append(log, ErrorResult(task, error_msg))>>

\* the except branch: both appends, the payload first
AppendError(payload, log, task, error_msg) ==
    <<Append(payload, ErrorAnswer(task, error_msg)),
      Append(log, ErrorResult(task, error_msg))>>

NoSolve == [how |-> "none", val |-> PyNone, ret |-> PyNone]

\* No tool has been invoked yet.
NoTool ==
    [tool |-> "none", args |-> <<>>, raised |-> FALSE, ret |-> PyNone,
     task |-> 0, running |-> FALSE, ctx |-> EmptyDict, requests |-> 0,
     wrote |-> FALSE]

-----------------------------------------------------------------------------
(* Agent.__init__, GAIAAgent.__init__ and what they call in ollama_model *)

PreferredModels == <<"qwen2.5-coder:32b", "qwen2.5-coder:7b", "llama3.1:8b">>

GeminiModelId == "gemini/gemini-2.5-flash"

SeqHas(seq, x) == \E i \in 1..Len(seq) : seq[i] = x

\* A reply of GET /api/tags: the request failed, or the names it lists.
TagsDown == [ok |-> FALSE, models |-> <<>>]
TagsOf(models) == [ok |-> TRUE, models |-> models]

\* get_available_models: the names, or [] on any failure
get_available_models(tags) == IF tags.ok THEN tags.models ELSE <<>>

\* find_best_model: raises when nothing is available, else the first
\* preferred model that is available, else the first available one.
find_best_model(preferred_models, tags) ==
    LET available == get_available_models(tags)
        hits == {i \in 1..Len(preferred_models) :
                    SeqHas(available, preferred_models[i])}
    IN  IF available = <<>> THEN [raised |-> TRUE, ret |-> "none"]
        ELSE IF hits # {}
        THEN [raised |-> FALSE,
              ret |-> preferred_models[CHOOSE i \in hits : \A j \in hits : i <= j]]
        ELSE [raised |-> FALSE, ret |-> available[1]]

\* A test_connection that only checks that the backend answers.
test_connection_OnlyPings(model_name, tags) == ~tags.ok

\* OllamaModel.test_connection raises: the backend is down, or the model is
\* not among the names it lists.
test_connection(model_name, tags) ==
    ~tags.ok \/ ~SeqHas(tags.models, model_name)

\* The environment a constructor runs in: GEMINI_API_KEY, whether
\* LiteLLMModel(...) returns, the reply of /api/tags to find_best_model and
\* the reply to test_connection.
NoConfig ==
    [env_key |-> PyNone, litellm_ok |-> FALSE, tags1 |-> TagsDown,
     tags2 |-> TagsDown]

GoodConfig ==
    [env_key |-> PyStr(<<"k">>), litellm_ok |-> TRUE,
     tags1 |-> TagsOf(PreferredModels), tags2 |-> TagsOf(PreferredModels)]

TagsReplies ==
    {TagsDown, TagsOf(<<>>), TagsOf(<<"mistral:7b">>),
     TagsOf(<<"mistral:7b", "llama3.1:8b">>), TagsOf(PreferredModels)}

Configs(v) ==
    IF v = "gemini"
    THEN {[GoodConfig EXCEPT !.env_key = k, !.litellm_ok = ok] :
            k \in {PyNone, EmptyStr, PyStr(<<"k">>)}, ok \in BOOLEAN}
    ELSE {[GoodConfig EXCEPT !.tags1 = t1, !.tags2 = t2] :
            t1 \in TagsReplies, t2 \in TagsReplies}

\* Agent.__init__ (api_key=None): the model the agent holds, or raised
AgentInit(cfg) ==
    IF ~Truthy(cfg.env_key) THEN [raised |-> TRUE, model |-> "none"]
    ELSE IF ~cfg.litellm_ok THEN [raised |-> TRUE, model |-> "none"]
    ELSE [raised |-> FALSE, model |-> GeminiModelId]

\* GAIAAgent.__init__: find_best_model, then OllamaModel(best_model)
GAIAAgentInit(cfg) ==
    LET best_model == find_best_model(PreferredModels, cfg.tags1)
    IN  IF best_model.raised THEN [raised |-> TRUE, model |-> "none"]
        ELSE IF test_connection(best_model.ret, cfg.tags2)
        THEN [raised |-> TRUE, model |-> "none"]
        ELSE [raised |-> FALSE, model |-> best_model.ret]

NoAgent == [tried |-> FALSE, built |-> FALSE, model |-> "none", cfg |-> NoConfig]

\* agent = Agent() or agent = GAIAAgent() under cfg
NewAgent(v, cfg) ==
    LET a == IF v = "gemini" THEN AgentInit(cfg) ELSE GAIAAgentInit(cfg)
    IN  [tried |-> TRUE, built |-> ~a.raised, model |-> a.model, cfg |-> cfg]

\* No adapter call has been made yet.
NoModelCall ==
    [prompt |-> PyNone, backend |-> "none",
     call |-> [endpoint |-> "none", text |-> <<>>, messages |-> <<>>,
               requests |-> 0, depth |-> 0, raised |-> FALSE, ret |-> PyNone]]

-----------------------------------------------------------------------------
(* The state after `agent = Agent()`, `results = []`, `answers_payload = []` *)

MinDelay == 3
MaxStepsGemini == 8
MaxStepsGaia == 15

max_steps == IF variant = "gemini" THEN MaxStepsGemini ELSE MaxStepsGaia

Init ==
    /\ variant \in {"gemini", "gaia"}
    /\ nTasks \in 0..MaxTasks
    /\ questions = <<>>
    /\ pc = "loop"
    /\ steps = 0
    /\ results = <<>>
    /\ answers_payload = <<>>
    /\ current_task_context = EmptyDict
    /\ solved = <<>>
    /\ solve_out = NoSolve
    /\ clock = MinDelay
    /\ last_search_time = 0
    /\ search_log = <<>>
    /\ tool_out = NoTool
    /\ posts = 0
    /\ typed = Missing
    /\ confirm = Missing
    /\ submit_ret = PyNone
    /\ fetch_out = "ok"
    /\ agent = NewAgent(variant, GoodConfig)
    /\ model_out = NoModelCall

-----------------------------------------------------------------------------
(* One loop iteration or the part of it up to the start of agent.run *)

AtLoopHead == pc = "loop" /\ Len(questions) < nTasks

\* The record is skipped: continue.
IterSkip(question_data) ==
    /\ AtLoopHead
    /\ SkipCondition(question_data)
    /\ questions' = Append(questions, question_data)
    /\ UNCHANGED <<variant, nTasks, pc, steps, results, answers_payload,
                   current_task_context, solved, solve_out>>
    /\ UNCHANGED <<limiterVars, toolVars, mainVars, startVars, modelVars>>

\* The banner print raises outside the try: the exception leaves the function.
IterBannerRaises(question_data) ==
    /\ AtLoopHead
    /\ ~SkipCondition(question_data)
    /\ BannerRaises(question_data)
    /\ questions' = Append(questions, question_data)
    /\ pc' = "raised"
    /\ UNCHANGED <<variant, nTasks, steps, results, answers_payload,
                   current_task_context, solved, solve_out>>
    /\ UNCHANGED <<limiterVars, toolVars, mainVars, startVars, modelVars>>

\* solve_task is called, publishes the context and raises before its try;
\* the runner's except branch records the task.
IterSolveRaises(question_data) ==
    LET task == MakeTask(question_data)
        both == AppendError(answers_payload, results, task, StripErrorMsg)
    IN  /\ AtLoopHead
        /\ ~SkipCondition(question_data)
        /\ ~BannerRaises(question_data)
        /\ StripRaises(variant, task)
        /\ questions' = Append(questions, question_data)
        /\ solved' = Append(solved, task)
        /\ current_task_context' = PublishContext(variant, current_task_context, task)
        /\ solve_out' = [how |-> "raised", val |-> PyNone, ret |-> PyNone]
        /\ answers_payload' = both[1]
        /\ results' = both[2]
        /\ UNCHANGED <<variant, nTasks, pc, steps>>
        /\ UNCHANGED <<limiterVars, toolVars, mainVars, startVars, modelVars>>

\* solve_task is called, publishes the context and starts agent.run.
IterBegin(question_data) ==
    LET task == MakeTask(question_data)
    IN  /\ AtLoopHead
        /\ ~SkipCondition(question_data)
        /\ ~BannerRaises(question_data)
        /\ ~StripRaises(variant, task)
        /\ questions' = Append(questions, question_data)
        /\ solved' = Append(solved, task)
        /\ current_task_context' = PublishContext(variant, current_task_context, task)
        /\ solve_out' = NoSolve
        /\ pc' = "running"
        /\ steps' = 0
        /\ UNCHANGED <<variant, nTasks, results, answers_payload>>
        /\ UNCHANGED <<limiterVars, toolVars, mainVars, startVars, modelVars>>

-----------------------------------------------------------------------------
(* agent.run and the rest of the iteration *)

CurrentTask == solved[Len(solved)]

\* One reasoning step of the runtime that ends neither the run nor a search.
RuntimeStep ==
    /\ pc = "running"
    /\ steps < max_steps
    /\ steps' = steps + 1
    /\ UNCHANGED <<variant, nTasks, questions, pc, results, answers_payload,
                   current_task_context, solved, solve_out>>
    /\ UNCHANGED <<limiterVars, toolVars, mainVars, startVars, modelVars>>

\* agent.run returns result; solve_task returns str(result); the try branch
\* of the runner records it.
RunAnswered(result) ==
    LET ret == SolveTaskAnswer(result)
        both == AppendSuccess(answers_payload, results, CurrentTask, ret)
    IN  /\ pc = "running"
        /\ solve_out' = [how |-> "answered", val |-> result, ret |-> ret]
        /\ answers_payload' = both[1]
        /\ results' = both[2]
        /\ pc' = "loop"
        /\ steps' = 0
        /\ current_task_context' = ContextAfterSolve(current_task_context)
        /\ UNCHANGED <<variant, nTasks, questions, solved>>
        /\ UNCHANGED <<limiterVars, toolVars, mainVars, startVars, modelVars>>

\* agent.run raises e; solve_task catches it and returns its error string;
\* the try branch of the runner records that string.
RunErrored(e) ==
    LET ret == SolveTaskError(variant, e)
        both == AppendSuccess(answers_payload, results, CurrentTask, ret)
    IN  /\ pc = "running"
        /\ solve_out' = [how |-> "errored", val |-> PyNone, ret |-> ret]
        /\ answers_payload' = both[1]
        /\ results' = both[2]
        /\ pc' = "loop"
        /\ steps' = 0
        /\ current_task_context' = ContextAfterSolve(current_task_context)
        /\ UNCHANGED <<variant, nTasks, questions, solved>>
        /\ UNCHANGED <<limiterVars, toolVars, mainVars, startVars, modelVars>>

\* The list is exhausted: return results, answers_payload.
Return ==
    /\ pc = "loop"
    /\ Len(questions) = nTasks
    /\ pc' = "returned"
    /\ UNCHANGED <<variant, nTasks, questions, steps, results,
                   answers_payload, current_task_context, solved, solve_out>>
    /\ UNCHANGED <<limiterVars, toolVars, mainVars, startVars, modelVars>>

-----------------------------------------------------------------------------
(* create_rate_limited_search: the closure Agent.__init__ builds once *)

\* sleep_time: what rate_limited_search sleeps before it dispatches
SleepTime(current_time, last) ==
    IF current_time - last < MinDelay
    THEN MinDelay - (current_time - last)
    ELSE 0

\* last_search_time[0] once the underlying search has ended at time done:
\* it is assigned after search_tool(query) inside the try, so only on success
RecordTime(last, ok, done) == IF ok THEN done ELSE last

\* A wrapper that logs the failure and lets the exception through.
SearchOutcome_Reraises(ok, text, e) ==
    IF ok
    THEN [raised |-> FALSE, ret |-> PyStr(text)]
    ELSE [raised |-> TRUE, ret |-> PyNone]

\* What rate_limited_search hands to the runtime: the search result, or on
\* an exception of the underlying search the text "Search failed: <e>".
SearchOutcome(ok, text, e) ==
    IF ok
    THEN [raised |-> FALSE, ret |-> PyStr(text)]
    ELSE [raised |-> FALSE,
          ret |-> PyStr(<<"S", "e", "a", "r", "c", "h", " ", "f", "a", "i",
                          "l", "e", "d", ":", " ">> \o e)]

\* The calls of search_tool(query) in one rate_limited_search: the one in the
\* try; the except branch returns.
SearchCalls(ok) == 1

\* The text a successful search returns.
SearchHits == {<<"h", "i", "t">>}

\* One invocation of the rate-limited search tool by the runtime: the sleep
\* (which may overshoot by over), the underlying search (which takes dur and
\* succeeds or raises e), and the bookkeeping after it.
rate_limited_search(ok, over, dur, text, e) ==
    LET dispatch == clock + SleepTime(clock, last_search_time) + over
        done == dispatch + dur
        out == SearchOutcome(ok, text, e)
    IN  /\ pc = "running"
        /\ variant = "gemini"
        /\ Len(search_log) < MaxSearches
        /\ done <= MaxTime
        /\ clock' = done
        /\ last_search_time' = RecordTime(last_search_time, ok, done)
        /\ search_log' = Append(search_log,
               [task |-> Len(solved), dispatch |-> dispatch, done |-> done,
                ok |-> ok, raised |-> out.raised, ret |-> out.ret,
                limited |-> TRUE, calls |-> SearchCalls(ok)])
        /\ UNCHANGED <<runnerVars, toolVars, mainVars, startVars, modelVars>>

\* One invocation of the search tool GAIAAgent registers, the
\* DuckDuckGoSearchTool() itself: the request goes out when the runtime calls
\* it, and takes dur.
web_search(ok, dur, text) ==
    /\ pc = "running"
    /\ variant = "gaia"
    /\ Len(search_log) < MaxSearches
    /\ clock + dur <= MaxTime
    /\ clock' = clock + dur
    /\ search_log' = Append(search_log,
           [task |-> Len(solved), dispatch |-> clock, done |-> clock + dur,
            ok |-> ok, raised |-> ~ok,
            ret |-> IF ok THEN PyStr(text) ELSE PyNone, limited |-> FALSE,
            calls |-> 1])
    /\ UNCHANGED last_search_time
    /\ UNCHANGED <<runnerVars, toolVars, mainVars, startVars, modelVars>>

\* Time passes.
Tick ==
    /\ clock < MaxTime
    /\ clock' = clock + 1
    /\ UNCHANGED <<last_search_time, search_log>>
    /\ UNCHANGED <<runnerVars, toolVars, mainVars, startVars, modelVars>>

-----------------------------------------------------------------------------
(* Text operations *)

\* sub in s
Contains(s, sub) ==
    \E i \in 0..(Len(s) - Len(sub)) : SubSeq(s, i + 1, i + Len(sub)) = sub

\* s.endswith(p)
EndsWith(s, p) ==
    Len(s) >= Len(p) /\ SubSeq(s, Len(s) - Len(p) + 1, Len(s)) = p

UpperLetters == <<"A", "B", "C", "D", "E", "F", "G", "H", "I", "J", "K", "L", "M", "N", "O", "P", "Q", "R", "S", "T", "U", "V", "W", "X", "Y", "Z">>
LowerLetters == <<"a", "b", "c", "d", "e", "f", "g", "h", "i", "j", "k", "l", "m", "n", "o", "p", "q", "r", "s", "t", "u", "v", "w", "x", "y", "z">>

LowerChar(c) ==
    IF \E i \in 1..26 : UpperLetters[i] = c
    THEN LowerLetters[CHOOSE i \in 1..26 : UpperLetters[i] = c]
    ELSE c

\* s.lower()
Lower(s) == [i \in 1..Len(s) |-> LowerChar(s[i])]

\* s.strip(), for the blank as the only whitespace
RECURSIVE Strip(_)
Strip(s) ==
    IF s = <<>> THEN s
    ELSE IF s[1] = " " THEN Strip(Tail(s))
    ELSE IF s[Len(s)] = " " THEN Strip(SubSeq(s, 1, Len(s) - 1))
    ELSE s

DigitChars == <<"0", "1", "2", "3", "4", "5", "6", "7", "8", "9">>

\* int(d) of a decimal digit string
RECURSIVE IntVal(_)
IntVal(d) ==
    IF d = <<>> THEN 0
    ELSE 10 * IntVal(SubSeq(d, 1, Len(d) - 1))
         + ((CHOOSE i \in 1..10 : DigitChars[i] = d[Len(d)]) - 1)

\* str(n) of a natural number
RECURSIVE ToDigits(_)
ToDigits(n) ==
    IF n < 10 THEN <<DigitChars[n + 1]>>
    ELSE ToDigits(n \div 10) \o <<DigitChars[(n % 10) + 1]>>

\* s * n
RECURSIVE Repeat(_, _)
Repeat(s, n) == IF n <= 0 THEN <<>> ELSE s \o Repeat(s, n - 1)

-----------------------------------------------------------------------------
(* The tools: tools.py for the Agent, gaia_agent.py for the GAIAAgent *)

\* A get_task_context without the test for the empty store.
GetTaskContextText_NoEmptyTest(v, ctx) ==
    <<"T", "a", "s", "k", " ", "I", "D", ":", " ">> \o Str(Get(ctx, "task_id", PyStr(<<"U", "n", "k", "n", "o", "w", "n">>))) \o <<"\n">>
    \o <<"Q", "u", "e", "s", "t", "i", "o", "n", ":", " ">> \o Str(Get(ctx, "Question", PyStr(<<"N", "o", " ", "q", "u", "e", "s", "t", "i", "o", "n">>))) \o <<"\n">>
    \o <<"F", "i", "l", "e", ":", " ">> \o Str(Get(ctx, "file_name", EmptyStr))

\* get_task_context: the text it returns for the store ctx
GetTaskContextText(v, ctx) ==
    IF ctx = EmptyDict
    THEN <<"N", "o", " ", "t", "a", "s", "k", " ", "c", "o", "n", "t", "e", "x", "t", " ", "a", "v", "a", "i", "l", "a", "b", "l", "e">>
    ELSE <<"T", "a", "s", "k", " ", "I", "D", ":", " ">> \o Str(Get(ctx, "task_id", PyStr(<<"U", "n", "k", "n", "o", "w", "n">>))) \o <<"\n">>
         \o <<"Q", "u", "e", "s", "t", "i", "o", "n", ":", " ">> \o Str(Get(ctx, "Question", PyStr(<<"N", "o", " ", "q", "u", "e", "s", "t", "i", "o", "n">>))) \o <<"\n">>
         \o <<"F", "i", "l", "e", ":", " ">>
         \o (IF v = "gemini"
             THEN Str(Get(ctx, "file_name", EmptyStr)) \o <<"\n">>
             ELSE Str(Get(ctx, "file_name", PyStr(<<"N", "o", " ", "f", "i", "l", "e">>))))

ImageExts == {<<".", "p", "n", "g">>, <<".", "j", "p", "g">>, <<".", "j", "p", "e", "g">>, <<".", "g", "i", "f">>, <<".", "b", "m", "p">>}

\* download_task_file(task_id) under the store ctx: what it returns, how many
\* requests it sends and whether it writes the file.  net is the outcome of
\* GET /files/{task_id} ("200", "404" or "exc" with message e), size the text
\* of len(response.content).  Writing under a file_name that is no string
\* fails inside the try.
DownloadTaskFile(v, ctx, task_id, net, size, e) ==
    IF v = "gaia"
    THEN [ret |-> PyStr(<<"F", "i", "l", "e", " ", "d", "o", "w", "n", "l", "o", "a", "d", " ", "f", "o", "r", " ", "t", "a", "s", "k", " ">> \o Str(task_id) \o <<" ", "n", "o", "t", " ", "i", "m", "p", "l", "e", "m", "e", "n", "t", "e", "d", " ", "y", "e", "t">>),
          requests |-> 0, wrote |-> FALSE]
    ELSE IF ~Truthy(Get(ctx, "file_name", PyNone))
    THEN [ret |-> PyStr(<<"N", "o", " ", "f", "i", "l", "e", " ", "a", "s", "s", "o", "c", "i", "a", "t", "e", "d", " ", "w", "i", "t", "h", " ", "t", "h", "i", "s", " ", "t", "a", "s", "k">>), requests |-> 0, wrote |-> FALSE]
    ELSE IF net = "exc" \/ (net = "200" /\ ctx.file_name.t # "str")
    THEN [ret |-> PyStr(<<"E", "r", "r", "o", "r", " ", "d", "o", "w", "n", "l", "o", "a", "d", "i", "n", "g", " ", "f", "i", "l", "e", ":", " ">> \o e), requests |-> 1, wrote |-> FALSE]
    ELSE IF net = "404"
    THEN [ret |-> PyStr(<<"F", "a", "i", "l", "e", "d", " ", "t", "o", " ", "d", "o", "w", "n", "l", "o", "a", "d", " ", "f", "i", "l", "e", ":", " ", "H", "T", "T", "P", " ", "4", "0", "4">>), requests |-> 1, wrote |-> FALSE]
    ELSE IF \E ext \in ImageExts : EndsWith(Lower(ctx.file_name.v), ext)
    THEN [ret |-> PyStr(<<"D", "o", "w", "n", "l", "o", "a", "d", "e", "d", " ", "i", "m", "a", "g", "e", " ", "f", "i", "l", "e", ":", " ">> \o ctx.file_name.v \o <<".", " ", "U", "s", "e", " ", "a", "n", "a", "l", "y", "z", "e", "_", "i", "m", "a", "g", "e", "(", ")", " ", "t", "o", " ", "p", "r", "o", "c", "e", "s", "s", " ", "i", "t", ".">>),
          requests |-> 1, wrote |-> TRUE]
    ELSE [ret |-> PyStr(<<"D", "o", "w", "n", "l", "o", "a", "d", "e", "d", " ", "f", "i", "l", "e", ":", " ">> \o ctx.file_name.v \o <<" ", "(">> \o size
                        \o <<" ", "b", "y", "t", "e", "s", ")">>),
          requests |-> 1, wrote |-> TRUE]

\* text[::-1]
RECURSIVE Reverse(_)
Reverse(s) == IF s = <<>> THEN <<>> ELSE Reverse(Tail(s)) \o <<s[1]>>

\* text[:0:-1]: a slice that stops one short
ReverseText_StopsShort(text) ==
    [raised |-> text.t # "str",
     ret |-> IF text.t = "str" /\ text.v # <<>>
             THEN PyStr(Reverse(Tail(text.v)))
             ELSE IF text.t = "str" THEN text ELSE PyNone]

\* reverse_text(text): no try around the slice, which raises TypeError on a
\* value that cannot be sliced
ReverseText(text) ==
    [raised |-> text.t # "str",
     ret |-> IF text.t = "str" THEN PyStr(Reverse(text.v)) ELSE PyNone]

\* add(a, b): a + b without a try
AddResult(a, b) ==
    IF a.t = "int" /\ b.t = "int"
    THEN [raised |-> FALSE, ret |-> PyInt(ToDigits(IntVal(a.v) + IntVal(b.v)))]
    ELSE IF a.t = "str" /\ b.t = "str"
    THEN [raised |-> FALSE, ret |-> PyStr(a.v \o b.v)]
    ELSE [raised |-> TRUE, ret |-> PyNone]

\* multiply(a, b): a * b without a try
MultiplyResult(a, b) ==
    IF a.t = "int" /\ b.t = "int"
    THEN [raised |-> FALSE, ret |-> PyInt(ToDigits(IntVal(a.v) * IntVal(b.v)))]
    ELSE IF a.t = "int" /\ b.t = "str"
    THEN [raised |-> FALSE, ret |-> PyStr(Repeat(b.v, IntVal(a.v)))]
    ELSE IF a.t = "str" /\ b.t = "int"
    THEN [raised |-> FALSE, ret |-> PyStr(Repeat(a.v, IntVal(b.v)))]
    ELSE [raised |-> TRUE, ret |-> PyNone]

\* analyze_image, transcribe_audio, read_excel: the whole body is in a try
\* whose handler returns "<what failed>: <e>"
ContainedResult(ok, text, failed, e) ==
    IF ok THEN PyStr(text) ELSE PyStr(failed \o e)

\* The arguments the runtime's generated code passes to a tool.
ToolArgs == {PyStr(<<"a", "b">>), PyInt(<<"2">>), PyInt(<<"3">>), PyNone}

\* A tool invocation as tool_out records it.
ToolCall(name, args, raised, ret, requests, wrote) ==
    [tool |-> name, args |-> args, raised |-> raised, ret |-> ret,
     task |-> Len(solved), running |-> (pc = "running"),
     ctx |-> current_task_context, requests |-> requests, wrote |-> wrote]

\* Tools are invoked by the runtime during agent.run, or directly as the
\* module's functions between runs.
ToolCallable == pc \in {"loop", "running"}

get_task_context ==
    /\ ToolCallable
    /\ tool_out' = ToolCall("get_task_context", <<>>, FALSE,
           PyStr(GetTaskContextText(variant, current_task_context)), 0, FALSE)
    /\ UNCHANGED <<runnerVars, limiterVars, mainVars, startVars, modelVars>>

download_task_file(task_id, net, size, e) ==
    LET out == DownloadTaskFile(variant, current_task_context, task_id, net, size, e)
    IN  /\ ToolCallable
        /\ tool_out' = ToolCall("download_task_file", <<task_id>>, FALSE,
               out.ret, out.requests, out.wrote)
        /\ UNCHANGED <<runnerVars, limiterVars, mainVars, startVars, modelVars>>

reverse_text(text) ==
    LET out == ReverseText(text)
    IN  /\ ToolCallable
        /\ variant = "gemini"
        /\ tool_out' = ToolCall("reverse_text", <<text>>, out.raised, out.ret,
               0, FALSE)
        /\ UNCHANGED <<runnerVars, limiterVars, mainVars, startVars, modelVars>>

add(a, b) ==
    LET out == AddResult(a, b)
    IN  /\ ToolCallable
        /\ variant = "gemini"
        /\ tool_out' = ToolCall("add", <<a, b>>, out.raised, out.ret, 0, FALSE)
        /\ UNCHANGED <<runnerVars, limiterVars, mainVars, startVars, modelVars>>

multiply(a, b) ==
    LET out == MultiplyResult(a, b)
    IN  /\ ToolCallable
        /\ variant = "gemini"
        /\ tool_out' = ToolCall("multiply", <<a, b>>, out.raised, out.ret, 0, FALSE)
        /\ UNCHANGED <<runnerVars, limiterVars, mainVars, startVars, modelVars>>

analyze_image(image_path, ok, e) ==
    /\ ToolCallable
    /\ variant = "gemini"
    /\ tool_out' = ToolCall("analyze_image", <<image_path>>, FALSE,
           ContainedResult(ok,
               <<"I", "m", "a", "g", "e", " ", "A", "n", "a", "l", "y", "s", "i", "s", " ", "f", "o", "r", " ">> \o Str(image_path) \o <<":", "\n">>,
               <<"E", "r", "r", "o", "r", " ", "a", "n", "a", "l", "y", "z", "i", "n", "g", " ", "i", "m", "a", "g", "e", " ">> \o Str(image_path) \o <<":", " ">>, e),
           0, FALSE)
    /\ UNCHANGED <<runnerVars, limiterVars, mainVars, startVars, modelVars>>

transcribe_audio(file_path, ok, text, e) ==
    /\ ToolCallable
    /\ variant = "gemini"
    /\ tool_out' = ToolCall("transcribe_audio", <<file_path>>, FALSE,
           ContainedResult(ok, text, <<"E", "r", "r", "o", "r", " ", "t", "r", "a", "n", "s", "c", "r", "i", "b", "i", "n", "g", " ", "a", "u", "d", "i", "o", ":", " ">>, e), 0, FALSE)
    /\ UNCHANGED <<runnerVars, limiterVars, mainVars, startVars, modelVars>>

read_excel(file_path, ok, text, e) ==
    /\ ToolCallable
    /\ variant = "gemini"
    /\ tool_out' = ToolCall("read_excel", <<file_path>>, FALSE,
           ContainedResult(ok, text, <<"E", "r", "r", "o", "r", " ", "r", "e", "a", "d", "i", "n", "g", " ", "E", "x", "c", "e", "l", " ", "f", "i", "l", "e", ":", " ">>, e), 0, FALSE)
    /\ UNCHANGED <<runnerVars, limiterVars, mainVars, startVars, modelVars>>

-----------------------------------------------------------------------------
(* OllamaModel: __call__, _convert_messages, _make_request *)

PyList(items) == [t |-> "list", v |-> items]

\* The messages the runtime passes: a dict with (or without) role and
\* content, or an object of another type.
DictMsg(role, content) ==
    [dict |-> TRUE, role |-> role, content |-> content, obj |-> PyNone]
OtherMsg(x) ==
    [dict |-> FALSE, role |-> Missing, content |-> Missing, obj |-> x]

\* The parts of a content list.
TextPart(text) == [type |-> "text", text |-> text]
ImagePart == [type |-> "image", text |-> <<>>]

\* text_content: the texts of the parts of type "text", concatenated
RECURSIVE TextOfParts(_)
TextOfParts(parts) ==
    IF parts = <<>> THEN <<>>
    ELSE (IF Head(parts).type = "text" THEN Head(parts).text ELSE <<>>)
            \o TextOfParts(Tail(parts))

User == PyStr(<<"u", "s", "e", "r">>)

\* The body of the loop of _convert_messages
ConvertMessage(msg) ==
    IF msg.dict
    THEN LET role == Get(msg, "role", User)
             content == Get(msg, "content", EmptyStr)
         IN  [role |-> role,
              content |-> PyStr(IF content.t = "list"
                                THEN TextOfParts(content.v)
                                ELSE Str(content))]
    ELSE [role |-> User, content |-> PyStr(Str(msg.obj))]

\* A conversion that passes only the dicts on.
convert_messages_SkipsOthers(messages) ==
    LET dicts == SelectSeq(messages, LAMBDA m : m.dict)
    IN  [i \in 1..Len(dicts) |-> ConvertMessage(dicts[i])]

\* OllamaModel._convert_messages
convert_messages(messages) ==
    [i \in 1..Len(messages) |-> ConvertMessage(messages[i])]

Generate == "/api/generate"
Chat == "/api/chat"

\* What the backend does with a request: it answers with its content, it
\* answers without the content field, or the request fails.
Backends == {"content", "absent", "error"}

BackendText == <<"o", "k">>

\* response.json() of an answered request to endpoint
BackendJson(endpoint, b) ==
    [response |->
        IF endpoint = Generate /\ b = "content" THEN PyStr(BackendText) ELSE Missing,
     message_content |->
        IF endpoint = Chat /\ b = "content" THEN PyStr(BackendText) ELSE Missing]

\* A client that tries a failed request a second time.
RequestsSent_RetriesOnce(b) == IF b = "error" THEN 2 ELSE 1

\* The requests.post calls of one _make_request
RequestsSent(b) == 1

\* OllamaModel._make_request: one POST; StringWithContent(response_text) or,
\* from the except branch, Exception("Ollama request failed: ...")
make_request(endpoint, b) ==
    IF b = "error"
    THEN [raised |-> TRUE, ret |-> PyNone, requests |-> RequestsSent(b)]
    ELSE LET result == BackendJson(endpoint, b)
             response_text ==
                IF endpoint = Generate THEN Get(result, "response", EmptyStr)
                ELSE IF endpoint = Chat THEN Get(result, "message_content", EmptyStr)
                ELSE IF Truthy(Get(result, "message_content", EmptyStr))
                     THEN Get(result, "message_content", EmptyStr)
                     ELSE Get(result, "response", EmptyStr)
         IN  [raised |-> FALSE, ret |-> PyStr(response_text.v),
              requests |-> RequestsSent(b)]

\* OllamaModel.__call__(prompt), depth counting the calls of itself
RECURSIVE OllamaModelCall(_, _, _)
OllamaModelCall(prompt, b, depth) ==
    IF prompt.t = "str"
    THEN LET r == make_request(Generate, b)
         IN  [endpoint |-> Generate, text |-> prompt.v, messages |-> <<>>,
              requests |-> r.requests, depth |-> depth, raised |-> r.raised,
              ret |-> r.ret]
    ELSE IF prompt.t = "list"
    THEN LET r == make_request(Chat, b)
         IN  [endpoint |-> Chat, text |-> <<>>,
              messages |-> convert_messages(prompt.v),
              requests |-> r.requests, depth |-> depth, raised |-> r.raised,
              ret |-> r.ret]
    ELSE OllamaModelCall(PyStr(Str(prompt)), b, depth + 1)

SystemMsg == DictMsg(PyStr(<<"s", "y", "s", "t", "e", "m">>), PyStr(<<"a">>))
PartsMsg == DictMsg(Missing, PyList(<<TextPart(<<"b">>), ImagePart, TextPart(<<"c">>)>>))
BareMsg == DictMsg(User, Missing)

\* What the runtime may pass as prompt.
Prompts ==
    {PyStr(<<"h", "i">>), PyInt(<<"4", "2">>), PyNone, PyList(<<>>),
     PyList(<<SystemMsg>>), PyList(<<SystemMsg, PartsMsg>>),
     PyList(<<OtherMsg(PyInt(<<"7">>)), SystemMsg, BareMsg>>)}

\* One call of the model by the runtime of GAIAAgent (self.model is the
\* OllamaModel).
OllamaCall(prompt, b) ==
    /\ pc = "running"
    /\ variant = "gaia"
    /\ model_out' = [prompt |-> prompt, backend |-> b,
                     call |-> OllamaModelCall(prompt, b, 0)]
    /\ UNCHANGED <<runnerVars, limiterVars, toolVars, mainVars, startVars>>

-----------------------------------------------------------------------------
(* main after run_agent_on_all_questions: analysis, confirmation, submit *)

PyBool(b) ==
    [t |-> "bool",
     v |-> IF b THEN <<"T", "r", "u", "e">> ELSE <<"F", "a", "l", "s", "e">>]

Yes == <<"y", "e", "s">>

\* What the operator may type at the prompt.
TypedInputs == {Yes, <<" ", "Y", "E", "S", " ">>, <<"y">>, <<"n", "o">>}

\* A prompt that takes whatever is typed as consent.
ReadConfirm_AnyInput(raw) == PyStr(Yes)

\* input(...).strip().lower()
ReadConfirm(raw) == PyStr(Lower(Strip(raw)))

\* submit_gemini_gaia.analyze_local_results divides by len(results) without
\* testing it; submit_gaia_benchmark.analyze_local_results returns early on
\* an empty list.
AnalyzeRaises(v, log) == v = "gemini" /\ log = <<>>

\* A submit_results that posts whatever it is given.
SubmitSends_Always(payload) == TRUE

\* if not answers_payload: return False (before any request)
SubmitSends(payload) == payload # <<>>

\* Outcomes of requests.post / raise_for_status / response.json
PostOutcomes == {"ok", "HTTPError", "Timeout", "RequestException"}

\* A submit_results that posts again after a timeout.
PostsSent_RetriesTimeout(outcome) == IF outcome = "Timeout" THEN 2 ELSE 1

\* The requests one call of submit_results sends once it has a payload: the
\* single requests.post in the try; every except branch returns False.
PostsSent(outcome) == 1

\* Outcomes of requests.get / raise_for_status / response.json
FetchOutcomes == {"ok", "empty", "RequestException", "JSONDecodeError"}

\* len of what fetch_all_gaia_questions returns: the array of n records, or
\* [] for an empty array and from both except branches
FetchedCount(outcome, n) == IF outcome = "ok" THEN n ELSE 0

\* A main that goes on without questions.
MainProceeds_Always(n) == TRUE

\* `if not questions: ... return` in main, negated
MainProceeds(n) == n > 0

\* questions = fetch_all_gaia_questions()
fetch_all_gaia_questions(outcome, n) ==
    /\ pc = "start"
    /\ fetch_out' = outcome
    /\ nTasks' = FetchedCount(outcome, n)
    /\ pc' = "fetched"
    /\ UNCHANGED <<variant, questions, steps, results, answers_payload,
                   current_task_context, solved, solve_out, agent>>
    /\ UNCHANGED <<limiterVars, toolVars, mainVars, modelVars>>

\* if not questions: return
NoQuestions ==
    /\ pc = "fetched"
    /\ ~MainProceeds(nTasks)
    /\ pc' = "done"
    /\ UNCHANGED <<variant, nTasks, questions, steps, results,
                   answers_payload, current_task_context, solved, solve_out>>
    /\ UNCHANGED <<limiterVars, toolVars, mainVars, startVars, modelVars>>

\* The first statement of run_agent_on_all_questions: the constructor, whose
\* exception nothing catches.
Construct(cfg) ==
    /\ pc = "fetched"
    /\ MainProceeds(nTasks)
    /\ agent' = NewAgent(variant, cfg)
    /\ pc' = IF NewAgent(variant, cfg).built THEN "loop" ELSE "crashed"
    /\ UNCHANGED <<variant, nTasks, questions, steps, results,
                   answers_payload, current_task_context, solved, solve_out,
                   fetch_out>>
    /\ UNCHANGED <<limiterVars, toolVars, mainVars, modelVars>>

\* analyze_local_results(results)
analyze_local_results ==
    /\ pc = "returned"
    /\ nTasks > 0
    /\ pc' = IF AnalyzeRaises(variant, results) THEN "crashed" ELSE "analyzed"
    /\ UNCHANGED <<variant, nTasks, questions, steps, results,
                   answers_payload, current_task_context, solved, solve_out>>
    /\ UNCHANGED <<limiterVars, toolVars, mainVars, startVars, modelVars>>

\* submit_gaia_benchmark.main: the prompt and `if confirm != 'yes': return`
AskConfirm(raw) ==
    /\ pc = "analyzed"
    /\ variant = "gaia"
    /\ typed' = PyStr(raw)
    /\ confirm' = ReadConfirm(raw)
    /\ pc' = IF ReadConfirm(raw) # PyStr(Yes) THEN "done" ELSE "confirmed"
    /\ UNCHANGED <<variant, nTasks, questions, steps, results,
                   answers_payload, current_task_context, solved, solve_out>>
    /\ UNCHANGED <<limiterVars, toolVars, posts, submit_ret, startVars, modelVars>>

\* success = submit_results(username, agent_code_url, answers_payload) and
\* the end of main
submit_results(outcome) ==
    /\ \/ pc = "analyzed" /\ variant = "gemini"
       \/ pc = "confirmed"
    /\ IF SubmitSends(answers_payload)
       THEN /\ posts' = posts + PostsSent(outcome)
            /\ submit_ret' = PyBool(outcome = "ok")
       ELSE /\ posts' = posts
            /\ submit_ret' = PyBool(FALSE)
    /\ pc' = "done"
    /\ UNCHANGED <<variant, nTasks, questions, steps, results,
                   answers_payload, current_task_context, solved, solve_out>>
    /\ UNCHANGED <<limiterVars, toolVars, typed, confirm, startVars, modelVars>>

-----------------------------------------------------------------------------
NextRecord == FetchedRecords(Len(questions) + 1)

Next ==
    \/ \E question_data \in NextRecord : IterSkip(question_data)
    \/ \E question_data \in NextRecord : IterBannerRaises(question_data)
    \/ \E question_data \in NextRecord : IterSolveRaises(question_data)
    \/ \E question_data \in NextRecord : IterBegin(question_data)
    \/ RuntimeStep
    \/ \E result \in TerminalValues : RunAnswered(result)
    \/ \E e \in ExcMsgs : RunErrored(e)
    \/ Return

Spec == Init /\ [][Next]_vars

-----------------------------------------------------------------------------
(* The rate limiter over a run of the Agent on well-formed tasks *)

ProperRecord(k) ==
    [task_id |-> PyStr(<<"t", Digits[k]>>), question |-> PyStr(<<"q", "?">>),
     file_name |-> Missing]

InitLimiter == Init /\ variant = "gemini" /\ nTasks = MaxTasks

NextLimiter ==
    \/ IterBegin(ProperRecord(Len(questions) + 1))
    \/ \E ok \in BOOLEAN, over \in 0..MaxDur, dur \in 0..MaxDur,
          text \in SearchHits, e \in ExcMsgs :
            rate_limited_search(ok, over, dur, text, e)
    \/ Tick
    \/ RunAnswered(PyStr(<<"P", "a", "r", "i", "s">>))
    \/ Return

SpecLimiter == InitLimiter /\ [][NextLimiter]_vars

-----------------------------------------------------------------------------
(* The tools over a run on well-formed tasks, with and without a file *)

ToolRecords(k) ==
    {[task_id |-> PyStr(<<"t", Digits[k]>>), question |-> PyStr(<<"q", "?">>),
      file_name |-> f] : f \in {Missing, PyStr(<<"f", ".", "p", "n", "g">>)}}

InitTools == Init /\ nTasks = MaxTasks

NextTools ==
    \/ \E question_data \in ToolRecords(Len(questions) + 1) : IterBegin(question_data)
    \/ get_task_context
    \/ \E task_id \in {PyStr(<<"t", "1">>), PyInt(<<"5">>)},
          net \in {"200", "404", "exc"}, e \in ExcMsgs :
            download_task_file(task_id, net, <<"7">>, e)
    \/ \E text \in ToolArgs : reverse_text(text)
    \/ \E a \in ToolArgs, b \in ToolArgs : add(a, b)
    \/ \E a \in ToolArgs, b \in ToolArgs : multiply(a, b)
    \/ \E ok \in BOOLEAN, e \in ExcMsgs :
            analyze_image(PyStr(<<"f", ".", "p", "n", "g">>), ok, e)
    \/ \E ok \in BOOLEAN, e \in ExcMsgs :
            transcribe_audio(PyStr(<<"a", ".", "m", "p", "3">>), ok, <<"h", "i">>, e)
    \/ \E ok \in BOOLEAN, e \in ExcMsgs :
            read_excel(PyStr(<<"s", ".", "x", "l", "s", "x">>), ok, <<"1", " ", "2">>, e)
    \/ RunAnswered(PyStr(<<"P", "a", "r", "i", "s">>))
    \/ Return

SpecTools == InitTools /\ [][NextTools]_vars

-----------------------------------------------------------------------------
(* The searches of a run of either agent on well-formed tasks *)

InitSearch == Init /\ nTasks = MaxTasks

NextSearch ==
    \/ IterBegin(ProperRecord(Len(questions) + 1))
    \/ \E ok \in BOOLEAN, over \in 0..MaxDur, dur \in 0..MaxDur,
          text \in SearchHits, e \in ExcMsgs :
            rate_limited_search(ok, over, dur, text, e)
    \/ \E ok \in BOOLEAN, dur \in 0..MaxDur, text \in SearchHits :
            web_search(ok, dur, text)
    \/ Tick
    \/ RunAnswered(PyStr(<<"P", "a", "r", "i", "s">>))
    \/ Return

SpecSearch == InitSearch /\ [][NextSearch]_vars

-----------------------------------------------------------------------------
(* The context store over a run in which every tool is invoked *)

InitStore == Init /\ nTasks = MaxTasks

NextStore ==
    \/ IterBegin(ProperRecord(Len(questions) + 1))
    \/ get_task_context
    \/ \E net \in {"200", "exc"}, e \in ExcMsgs :
            download_task_file(PyStr(<<"t", "1">>), net, <<"7">>, e)
    \/ \E text \in {PyStr(<<"a", "b">>), PyNone} : reverse_text(text)
    \/ \E b \in {PyInt(<<"3">>), PyNone} : add(PyInt(<<"2">>), b)
    \/ \E b \in {PyInt(<<"3">>), PyNone} : multiply(PyInt(<<"2">>), b)
    \/ \E ok \in BOOLEAN, e \in ExcMsgs :
            analyze_image(PyStr(<<"f", ".", "p", "n", "g">>), ok, e)
    \/ \E ok \in BOOLEAN, e \in ExcMsgs :
            transcribe_audio(PyStr(<<"a", ".", "m", "p", "3">>), ok, <<"h", "i">>, e)
    \/ \E ok \in BOOLEAN, e \in ExcMsgs :
            read_excel(PyStr(<<"s", ".", "x", "l", "s", "x">>), ok, <<"1", " ", "2">>, e)
    \/ \E ok \in BOOLEAN, text \in SearchHits, e \in ExcMsgs :
            rate_limited_search(ok, 0, 0, text, e)
    \/ RunAnswered(PyStr(<<"P", "a", "r", "i", "s">>))
    \/ Return

SpecStore == InitStore /\ [][NextStore]_vars

-----------------------------------------------------------------------------
(* The calls that leave the core during a run: solve_task, the search, the
   model, on well-formed and id-less records *)

MainRecords(k) == {ProperRecord(k), [ProperRecord(k) EXCEPT !.task_id = Missing]}

InitCore == Init /\ nTasks = MaxTasks

NextCore ==
    \/ \E question_data \in MainRecords(Len(questions) + 1) : IterSkip(question_data)
    \/ \E question_data \in MainRecords(Len(questions) + 1) : IterBegin(question_data)
    \/ \E ok \in BOOLEAN, text \in SearchHits, e \in ExcMsgs :
            rate_limited_search(ok, 0, 0, text, e)
    \/ \E prompt \in Prompts, b \in Backends : OllamaCall(prompt, b)
    \/ RunAnswered(PyStr(<<"P", "a", "r", "i", "s">>))
    \/ \E e \in ExcMsgs : RunErrored(e)
    \/ Return

SpecCore == InitCore /\ [][NextCore]_vars

-----------------------------------------------------------------------------
(* main from its first line, over well-formed and id-less records *)

InitMain ==
    /\ variant \in {"gemini", "gaia"}
    /\ nTasks = 0
    /\ questions = <<>>
    /\ pc = "start"
    /\ steps = 0
    /\ results = <<>>
    /\ answers_payload = <<>>
    /\ current_task_context = EmptyDict
    /\ solved = <<>>
    /\ solve_out = NoSolve
    /\ clock = MinDelay
    /\ last_search_time = 0
    /\ search_log = <<>>
    /\ tool_out = NoTool
    /\ posts = 0
    /\ typed = Missing
    /\ confirm = Missing
    /\ submit_ret = PyNone
    /\ fetch_out = "none"
    /\ agent = NoAgent
    /\ model_out = NoModelCall

NextMain ==
    \/ \E outcome \in FetchOutcomes, n \in 1..MaxTasks :
            fetch_all_gaia_questions(outcome, n)
    \/ NoQuestions
    \/ \E cfg \in Configs(variant) : Construct(cfg)
    \/ \E question_data \in MainRecords(Len(questions) + 1) : IterSkip(question_data)
    \/ \E question_data \in MainRecords(Len(questions) + 1) : IterBegin(question_data)
    \/ RunAnswered(PyStr(<<"P", "a", "r", "i", "s">>))
    \/ \E e \in ExcMsgs : RunErrored(e)
    \/ Return
    \/ analyze_local_results
    \/ \E raw \in TypedInputs : AskConfirm(raw)
    \/ \E outcome \in PostOutcomes : submit_results(outcome)

SpecMain == InitMain /\ [][NextMain]_vars

-----------------------------------------------------------------------------
(* What the claims speak of *)

\* The record has no task_id (absent or empty) or no question text.
LacksIdOrQuestion(question_data) ==
    \/ question_data.task_id \in {Missing, EmptyStr}
    \/ question_data.question = Missing

HasIdAndQuestion(question_data) == ~LacksIdOrQuestion(question_data)

\* The records whose iteration is over (or was left by an exception).
Processed ==
    IF pc = "running" THEN SubSeq(questions, 1, Len(questions) - 1) ELSE questions

TaskIds(seq) == [k \in 1..Len(seq) |-> seq[k].task_id]

SkippedCount == Len(SelectSeq(questions, LacksIdOrQuestion))

ErrorMarker == <<"E", "r", "r", "o", "r", ":">>

-----------------------------------------------------------------------------
\* C1: no task aborts the run: run_agent_on_all_questions never raises,
\* whatever the records and the outcomes of the tasks, and when it returns it
\* has considered every record of the list.
C1_NoTaskAbortsRun ==
    /\ pc # "raised"
    /\ pc = "returned" => Len(questions) = nTasks

\* C2: in both agents, when agent.run raises, solve_task returns a string that
\* begins with the error marker "Error:".
C2_RuntimeErrorGivesErrorMarker ==
    solve_out.how = "errored" =>
        /\ solve_out.ret.t = "str"
        /\ StartsWith(solve_out.ret.v, ErrorMarker)

\* C3: between iterations and at the end of the run, the task_ids of the
\* RunResults are exactly the task_ids of the non-skipped records processed so
\* far, in fetch order, one RunResult each.
C3_OneResultPerAttemptedTaskInOrder ==
    TaskIds(results) = TaskIds(SelectSeq(Processed, HasIdAndQuestion))

\* C4: a record is skipped exactly when it lacks a task_id or a question: the
\* tasks passed to solve_task are, in order, the tasks of the records taken so
\* far that have both (an empty question included), and no other record
\* reaches solve_task, the results or the answers.
C4_SkippedIffLacksIdOrQuestion ==
    LET kept == SelectSeq(questions, HasIdAndQuestion)
    IN  /\ solved = [k \in 1..Len(kept) |-> MakeTask(kept[k])]
        /\ \A k \in 1..Len(results) : \E j \in 1..Len(solved) :
               results[k].task_id = solved[j].task_id
        /\ \A k \in 1..Len(answers_payload) : \E j \in 1..Len(solved) :
               answers_payload[k].task_id = solved[j].task_id

\* C5: the answers payload mirrors the RunResults: same length, the same
\* task_id at each position, every submitted_answer a string, and for a task
\* whose solve_task raised the string "ERROR: <message>".
C5_PayloadMirrorsResults ==
    /\ Len(answers_payload) = Len(results)
    /\ \A k \in 1..Len(results) :
        /\ answers_payload[k].task_id = results[k].task_id
        /\ answers_payload[k].submitted_answer.t = "str"
        /\ ~results[k].success =>
               answers_payload[k].submitted_answer.v =
                   <<"E", "R", "R", "O", "R", ":", " ">> \o results[k].error.v

\* A run of the Agent in which one task's solve_task raised and another was
\* answered.
C5_Witness ==
    /\ Len(results) = 2
    /\ Len(answers_payload) = 2
    /\ \E k \in 1..2 : ~results[k].success
    /\ \E k \in 1..2 : results[k].success

\* C6 (as stated): at the end of a run the length of the answers payload is
\* the number of RunResults minus the number of skipped tasks.
C6_PayloadIsResultsMinusSkipped ==
    pc = "returned" => Len(answers_payload) = Len(results) - SkippedCount

\* C6 (amended): when the run returns, the length of the answers payload is the
\* number of RunResults, and both are the number of fetched records minus the
\* number of skipped ones.
C6_PayloadIsResults ==
    pc = "returned" =>
        /\ Len(answers_payload) = Len(results)
        /\ Len(results) = nTasks - SkippedCount

\* A returned run with a skipped record and an attempted one.
C6_Witness ==
    /\ pc = "returned"
    /\ SkippedCount >= 1
    /\ Len(results) >= 1

\* C7: of two consecutive invocations of the rate-limited search, of the same
\* task or not, the second is dispatched to the underlying search no earlier
\* than MinDelay after the first one's underlying call ended.
C7_MinDelayBetweenSearches ==
    \A k \in 2..Len(search_log) :
        search_log[k].dispatch >= search_log[k - 1].done + MinDelay

\* C8: after an invocation the limiter's timestamp is the time at which the
\* underlying search ended, whether it returned or raised.
C8_TimestampRecordedOnReturnOrRaise ==
    search_log # <<>> => last_search_time = search_log[Len(search_log)].done

\* C9: when the underlying search raises, rate_limited_search does not raise
\* and returns the text "Search failed: <message>".
C9_SearchFailureIsText ==
    \A k \in 1..Len(search_log) :
        ~search_log[k].ok =>
            /\ ~search_log[k].raised
            /\ search_log[k].ret.t = "str"
            /\ StartsWith(search_log[k].ret.v,
                   <<"S", "e", "a", "r", "c", "h", " ", "f", "a", "i", "l",
                     "e", "d", ":", " ">>)

\* A failed search has been handed back to the runtime, which is still running.
C9_Witness ==
    /\ pc = "running"
    /\ search_log # <<>>
    /\ ~search_log[Len(search_log)].ok
    /\ search_log[Len(search_log)].task = Len(solved)

\* C10: the store holds exactly the context of the last task passed to
\* solve_task: every field is that task's, none is left from an earlier one.
C10_ContextReplacedWholesale ==
    solved # <<>> =>
        \A f \in {"task_id", "Question", "file_name"} :
            current_task_context[f] = CurrentTask[f]

\* The second task, without a file, has replaced the context of a first task
\* that had one.
C10_Witness ==
    /\ Len(solved) = 2
    /\ solved[1].file_name = PyStr(<<"f", ".", "p", "n", "g">>)
    /\ solved[2].file_name = EmptyStr
    /\ current_task_context = solved[2]

\* C11: get_task_context never raises; called before any context was set it
\* returns "No task context available", and once a task's context is set its
\* text shows that task's id, question and file name.
C11_GetTaskContextText ==
    tool_out.tool = "get_task_context" =>
        /\ ~tool_out.raised
        /\ tool_out.ret.t = "str"
        /\ tool_out.task = 0 => tool_out.ret.v = <<"N", "o", " ", "t", "a", "s", "k", " ", "c", "o", "n", "t", "e", "x", "t", " ", "a", "v", "a", "i", "l", "a", "b", "l", "e">>
        /\ tool_out.task > 0 =>
            LET task == solved[tool_out.task]
            IN  /\ Contains(tool_out.ret.v, <<"T", "a", "s", "k", " ", "I", "D", ":", " ">> \o task.task_id.v \o <<"\n">>)
                /\ Contains(tool_out.ret.v, <<"Q", "u", "e", "s", "t", "i", "o", "n", ":", " ">> \o task.Question.v \o <<"\n">>)
                /\ Contains(tool_out.ret.v, <<"F", "i", "l", "e", ":", " ">> \o task.file_name.v)

\* get_task_context has been called before any solve_task.
C11_Witness ==
    /\ tool_out.tool = "get_task_context"
    /\ tool_out.task = 0
    /\ tool_out.ctx = EmptyDict

\* C12: the context is published before agent.run starts, every tool invoked
\* during the run of task k sees the context of task k, and a task starts only
\* when the one before it has been recorded.
C12_ToolsSeeTheRunningTasksContext ==
    /\ pc = "running" =>
        /\ solved # <<>>
        /\ Len(results) = Len(solved) - 1
        /\ \A f \in {"task_id", "Question", "file_name"} :
               current_task_context[f] = solved[Len(solved)][f]
    /\ tool_out.running =>
        /\ tool_out.task >= 1
        /\ \A f \in {"task_id", "Question", "file_name"} :
               tool_out.ctx[f] = solved[tool_out.task][f]

\* A tool invoked during the second task, whose file differs from the first's.
C12_Witness ==
    /\ tool_out.running
    /\ tool_out.task = 2
    /\ solved[1].file_name # solved[2].file_name
    /\ tool_out.ctx.task_id = solved[2].task_id

\* C13: download_task_file under a context without a file name returns "No
\* file associated with this task", sends no request and writes no file.
C13_NoFileNoRequest ==
    (tool_out.tool = "download_task_file"
        /\ ~Truthy(Get(tool_out.ctx, "file_name", PyNone))) =>
        /\ tool_out.ret = PyStr(<<"N", "o", " ", "f", "i", "l", "e", " ", "a", "s", "s", "o", "c", "i", "a", "t", "e", "d", " ", "w", "i", "t", "h", " ", "t", "h", "i", "s", " ", "t", "a", "s", "k">>)
        /\ tool_out.requests = 0
        /\ ~tool_out.wrote

\* C14: reverse_text applied to its own result on a string gives the string
\* back, and an invocation changes neither the task context nor the rate
\* limiter's timestamp.
C14_ReverseTextInvolution ==
    [][(tool_out' # tool_out /\ tool_out'.tool = "reverse_text"
            /\ ~tool_out'.raised) =>
        /\ ReverseText(tool_out'.ret).ret = tool_out'.args[1]
        /\ current_task_context' = current_task_context
        /\ last_search_time' = last_search_time]_vars

\* reverse_text has turned "ab" into "ba".
C14_Witness ==
    /\ tool_out.tool = "reverse_text"
    /\ tool_out.args = <<PyStr(<<"a", "b">>)>>
    /\ tool_out.ret = PyStr(<<"b", "a">>)

\* C15: no tool raises to its caller, whatever its arguments and the context.
C15_NoToolRaises == ~tool_out.raised

-----------------------------------------------------------------------------
LastOf(seq) == seq[Len(seq)]

PayloadNonEmpty == answers_payload # <<>>

\* The operator's input, trimmed and lower-cased, is "yes".
TypedYes == typed # Missing /\ Lower(Strip(typed.v)) = Yes

\* C16: when agent.run ends with a terminal value v, solve_task returns
\* exactly str(v), nothing trimmed or added, and the runner logs that string
\* and submits it.
C16_AnswerIsStrOfTerminalValue ==
    solve_out.how = "answered" =>
        /\ solve_out.ret = PyStr(Str(solve_out.val))
        /\ LastOf(results).result = PyStr(Str(solve_out.val))
        /\ LastOf(answers_payload).submitted_answer = PyStr(Str(solve_out.val))
        /\ LastOf(answers_payload).task_id = CurrentTask.task_id

\* The runtime ended with "Paris " and the blank at the end was submitted.
C16_Witness ==
    /\ solve_out.how = "answered"
    /\ solve_out.val = PyStr(<<"P", "a", "r", "i", "s", " ">>)
    /\ LastOf(answers_payload).submitted_answer.v = <<"P", "a", "r", "i", "s", " ">>
    /\ Len(answers_payload) >= 2

\* C17: when agent.run raises during a task, the RunResult recorded for the
\* task has success = false and an error that is not None; a RunResult has
\* success = true only if the runtime produced a terminal answer.
C17_RuntimeErrorGivesFailedResult ==
    /\ solve_out.how = "errored" =>
        /\ ~LastOf(results).success
        /\ LastOf(results).error # PyNone
    /\ (solve_out.how # "none" /\ LastOf(results).success) =>
        solve_out.how = "answered"

\* C18: the submitted_answer of an attempted task is a string, and it begins
\* with the error marker if and only if the task ended in error, at the
\* solve_task boundary or at the runner's.
C18_ErrorMarkerIffError ==
    solve_out.how # "none" =>
        /\ LastOf(answers_payload).submitted_answer.t = "str"
        /\ StartsWith(LastOf(answers_payload).submitted_answer.v, ErrorMarker)
            <=> solve_out.how \in {"errored", "raised"}

\* C19 as stated: no POST while the loop runs, and a run that processed its
\* tasks ends with exactly one POST.
C19_ExactlyOnePostPerRun ==
    /\ pc \in {"loop", "running"} => posts = 0
    /\ (pc = "done" /\ nTasks > 0) => posts = 1

\* C19: a run sends at most one POST and none before main has finished the
\* loop, the analysis and (interactive variant) the prompt; a run that reaches
\* the end of main has sent one exactly when the payload is not empty and, in
\* the interactive variant, the operator consented.
C19_AtMostOnePostAfterTheLoop ==
    /\ posts <= 1
    /\ pc # "done" => posts = 0
    /\ (pc = "done" /\ nTasks > 0) =>
        (posts = 1 <=>
            /\ PayloadNonEmpty
            /\ variant = "gaia" => confirm = PyStr(Yes))

\* A run with a skipped record and an attempted one has ended after its POST.
C19_Witness ==
    /\ pc = "done"
    /\ posts = 1
    /\ SkippedCount >= 1
    /\ Len(results) >= 1
    /\ Len(questions) = nTasks

-----------------------------------------------------------------------------
\* C21: a call of submit_results whose request fails (HTTP error, timeout,
\* other network failure) leaves results and answers_payload as they were,
\* returns False without raising, and has sent at most one POST.
C21_FailedSubmitKeepsResultsNoRetry ==
    [][\A outcome \in PostOutcomes \ {"ok"} :
        submit_results(outcome) =>
            /\ results' = results
            /\ answers_payload' = answers_payload
            /\ submit_ret' = PyBool(FALSE)
            /\ pc' = "done"
            /\ posts' <= posts + 1]_vars

\* A POST was sent for a non-empty payload, failed, and main ended with the
\* results still there.
C21_Witness ==
    /\ pc = "done"
    /\ posts = 1
    /\ submit_ret = PyBool(FALSE)
    /\ Len(results) >= 1
    /\ Len(answers_payload) = Len(results)

-----------------------------------------------------------------------------
NothingDone ==
    /\ questions = <<>>
    /\ solved = <<>>
    /\ results = <<>>
    /\ answers_payload = <<>>
    /\ posts = 0

\* C22: when the fetch fails (transport error, undecodable JSON) or brings an
\* empty array, main stops before any work: no agent is constructed, no task
\* is attempted, no RunResult exists and no submission request is sent.
C22_FetchFailureHaltsTheRun ==
    fetch_out \in {"empty", "RequestException", "JSONDecodeError"} =>
        /\ nTasks = 0
        /\ ~agent.tried
        /\ NothingDone
        /\ pc \in {"fetched", "done"}

\* The fetch failed on the transport and main has returned.
C22_Witness ==
    /\ fetch_out = "RequestException"
    /\ pc = "done"
    /\ ~agent.tried

\* C23: a constructor that met a configuration error (no credential, backend
\* down, model not available) raised: an agent exists only under a usable
\* configuration, and after a failed construction main has ended with no
\* solve_task call, no RunResult and no submission.
C23_ConfigErrorIsFatalAtConstruction ==
    /\ (agent.built /\ variant = "gemini") =>
        /\ agent.cfg.env_key.t = "str" /\ agent.cfg.env_key.v # <<>>
        /\ agent.cfg.litellm_ok
        /\ agent.model = GeminiModelId
    /\ (agent.built /\ variant = "gaia") =>
        /\ agent.cfg.tags1.ok /\ SeqHas(agent.cfg.tags1.models, agent.model)
        /\ agent.cfg.tags2.ok /\ SeqHas(agent.cfg.tags2.models, agent.model)
    /\ (agent.tried /\ ~agent.built) => (pc = "crashed" /\ NothingDone)
    /\ (solved # <<>> \/ pc \in {"loop", "running", "returned"}) => agent.built

\* The backend listed a model to find_best_model and no longer to
\* test_connection: the constructor raised.
C23_Witness ==
    /\ variant = "gaia"
    /\ agent.tried /\ ~agent.built
    /\ agent.cfg.tags1 = TagsOf(<<"mistral:7b">>)
    /\ agent.cfg.tags2 = TagsOf(<<>>)
    /\ pc = "crashed"

-----------------------------------------------------------------------------
\* C24: a solve_task goes Idle -> ContextPublished -> Running -> Answered or
\* Errored: while the runtime runs the task's context is the published one
\* and no outcome exists yet, the runtime takes at most max_steps steps, and a
\* solve_task that has ended has ended Answered or Errored, never otherwise.
C24_TaskStateMachine ==
    /\ steps <= max_steps
    /\ pc = "running" =>
        /\ solve_out.how = "none"
        /\ Get(current_task_context, "task_id", PyNone) = CurrentTask.task_id
    /\ solve_out.how \in {"none", "answered", "errored"}
    /\ solve_out.how \in {"answered", "errored"} =>
        LastOf(results).task_id = CurrentTask.task_id

\* C25: every search request of a run, in either agent, goes through the rate
\* limiter, so no two are dispatched less than MinDelay apart.
C25_EverySearchIsRateLimited ==
    /\ \A k \in 1..Len(search_log) : search_log[k].limited
    /\ \A k \in 2..Len(search_log) :
        search_log[k].dispatch - search_log[k - 1].dispatch >= MinDelay

-----------------------------------------------------------------------------
\* The outcomes recorded so far: one per solve_task call that has ended.
EndedCalls == Len(solved) - (IF pc = "running" THEN 1 ELSE 0)

\* C26: nothing is retried: no task is passed to solve_task twice and each
\* call that has ended left one RunResult and one answer, whether it answered
\* or failed; an invocation of rate_limited_search calls the underlying search
\* at most once; a call of the model adapter sends exactly one request, also
\* when the request fails.
C26_NoRetry ==
    /\ \A i, j \in 1..Len(solved) :
        i # j => solved[i].task_id # solved[j].task_id
    /\ TaskIds(solved) = TaskIds(SelectSeq(questions, HasIdAndQuestion))
    /\ Len(results) = EndedCalls
    /\ Len(answers_payload) = EndedCalls
    /\ pc = "running" => solve_out = NoSolve
    /\ \A k \in 1..Len(search_log) : search_log[k].calls <= 1
    /\ model_out.backend # "none" => model_out.call.requests = 1

\* In the second task a request of the adapter failed once and the task
\* ended in error: two tasks, two RunResults.
C26_Witness ==
    /\ model_out.backend = "error"
    /\ model_out.call.raised
    /\ model_out.call.requests = 1
    /\ solve_out.how = "errored"
    /\ Len(results) = 2

\* C28: the adapter sends a text prompt to /api/generate, a message list to
\* /api/chat with as many messages in the same order, and any other value as
\* its str() to /api/generate after one call of itself; it returns the
\* backend's content as text, "" when the field is absent, and raises when
\* the request fails.
C28_AdapterDispatchesOnShape ==
    LET prompt == model_out.prompt
        call == model_out.call
    IN  model_out.backend # "none" =>
        /\ prompt.t = "str" =>
            (call.endpoint = Generate /\ call.text = prompt.v /\ call.depth = 0)
        /\ prompt.t = "list" =>
            /\ call.endpoint = Chat
            /\ call.depth = 0
            /\ Len(call.messages) = Len(prompt.v)
            /\ \A i \in 1..Len(prompt.v) :
                /\ call.messages[i].content.t = "str"
                /\ (prompt.v[i].dict /\ prompt.v[i].role # Missing) =>
                        call.messages[i].role = prompt.v[i].role
                /\ (prompt.v[i].dict /\ prompt.v[i].content.t = "str") =>
                        call.messages[i].content = prompt.v[i].content
                /\ ~prompt.v[i].dict =>
                        call.messages[i].content.v = Str(prompt.v[i].obj)
        /\ prompt.t \notin {"str", "list"} =>
            (call.endpoint = Generate /\ call.text = Str(prompt) /\ call.depth = 1)
        /\ model_out.backend = "content" =>
            (~call.raised /\ call.ret = PyStr(BackendText))
        /\ model_out.backend = "absent" => (~call.raised /\ call.ret = EmptyStr)
        /\ model_out.backend = "error" => (call.raised /\ call.ret = PyNone)

\* A list of three messages, the first of them not a dict, went to /api/chat
\* as three messages and the backend's text came back.
C28_Witness ==
    /\ model_out.prompt.t = "list"
    /\ Len(model_out.prompt.v) = 3
    /\ Len(model_out.call.messages) = 3
    /\ model_out.call.messages[1] = [role |-> User, content |-> PyStr(<<"7">>)]
    /\ model_out.call.ret = PyStr(BackendText)

-----------------------------------------------------------------------------
\* C27: the store is written only when a solve_task begins: no invocation of
\* a tool or of a search, successful or failing, changes it, and it stays as
\* published when the task ends.
C27_OnlySolveTaskWritesTheStore ==
    [][/\ (tool_out' # tool_out \/ search_log' # search_log) =>
            current_task_context' = current_task_context
       /\ current_task_context' # current_task_context =>
            /\ Len(solved') = Len(solved) + 1
            /\ pc' = "running"]_vars

\* The first task has ended, a tool has failed since, and the store still
\* holds the first task.
C27_Witness ==
    /\ pc = "loop"
    /\ Len(results) = 1
    /\ tool_out.tool = "reverse_text" /\ tool_out.raised /\ ~tool_out.running
    /\ Get(current_task_context, "task_id", PyNone) = PyStr(<<"t", "1">>)

-----------------------------------------------------------------------------
\* C29: a run whose records are all skipped (a non-empty list, no RunResult)
\* ends cleanly in both variants: the analysis does not raise on the empty
\* results, and submit_results, once reached, sends no request and returns
\* False.
C29_AllSkippedRunEndsCleanly ==
    (nTasks > 0 /\ SkippedCount = nTasks) =>
        /\ results = <<>> /\ answers_payload = <<>>
        /\ pc # "crashed"
        /\ posts = 0
        /\ (pc = "done" /\ (variant = "gaia" => confirm = PyStr(Yes))) =>
            submit_ret = PyBool(FALSE)

====
